---- MODULE Spec2Model ----
(***************************************************************************)
(* Verification model of the chimney C shim library.                       *)
(*                                                                         *)
(*   Spec         the growable buffer _dynarr, driven through an           *)
(*                injected alloc_t allocator that may fail at any request  *)
(*   SpecAligned  the aligned reallocation std_aalloc (aligned_realloc)    *)
(*                on top of the C library's aligned_alloc/realloc/free     *)
(*   SpecTags     tagged pointers: to_tagged_ptr, setTag, unTag, getTag,   *)
(*                is_taggable                                              *)
(*   SpecAlignment  alignUp and alignDown                                  *)
(*   SpecSlice    slices _larr carved out of a storage block               *)
(*                                                                         *)
(* size_t is W bits wide here; every size_t computation of the source is   *)
(* reduced modulo 2^W.  Memory is a set of blocks indexed by their base    *)
(* address; a byte that was never written holds the indeterminate value    *)
(* Indet.  Undefined behaviour (a store outside a live block) either       *)
(* terminates the process or lets it run on with the store lost.           *)
(***************************************************************************)
EXTENDS Integers, Sequences, FiniteSets, TLC

VARIABLES heap, arr, elemSize, status, last, hist, nops, own, acall,
          tp, tcall, mcall, slice, scall

vars == <<heap, arr, elemSize, status, last, hist, nops, own, acall,
          tp, tcall, mcall, slice, scall>>
bufferVars == <<arr, elemSize, status, last, hist, nops>>
\* the state of the allocation-free parts: tagged pointers, alignment
\* arithmetic and slices
pureVars == <<tp, tcall, mcall, slice, scall>>

(* ------------------------------ bounds -------------------------------- *)
W == 3              \* bits of size_t
IntW == 2           \* bits of unsigned int (narrower than size_t)
MaxAddr == 4        \* block base addresses are 1..MaxAddr
MaxVal == 2         \* pushed element values are 1..MaxVal
MaxOps == 5         \* calls made on the buffer in one run
MaxSize == 3        \* block sizes asked of std_aalloc are 0..MaxSize
MaxLen == 3         \* a slice has at most MaxLen elements
PtrW == 5           \* bits of uintptr_t in the tagged pointer model

SizeMod == 2^W
SIZE_MAX == SizeMod - 1
SizeT == 0..SIZE_MAX
NULL == 0
Addrs == 1..MaxAddr
\* sizeof(void*), the element size of the boxed instantiation dynarr_any
PtrBytes == 2
\* the element sizes of the two instantiations, dynarr_byte and dynarr_any
ElemSizes == {1, PtrBytes}
Vals == 1..MaxVal
Sizes == 0..MaxSize
Indet == 0

Min(a, b) == IF a <= b THEN a ELSE b

(* ------------------------------ memory -------------------------------- *)
FreeBlock == [live |-> FALSE, data |-> <<>>]

\* a block of n bytes whose content is indeterminate
Fresh(n) == [live |-> TRUE, data |-> [i \in 1..n |-> Indet]]

\* the content of blk carried over to a block of n bytes
Resized(blk, n) ==
  [live |-> TRUE,
   data |-> [i \in 1..n |-> IF i <= Len(blk.data) THEN blk.data[i] ELSE Indet]]

FreeAddrs(h) == {a \in Addrs : ~h[a].live}

\* where the injected allocator places a new block: the buffer never looks at
\* the value of an address, so the lowest free one stands for any of them
NewAddrs(h) == {a \in FreeAddrs(h) : \A b \in FreeAddrs(h) : a <= b}

Dangling(h, ptr) == ptr # NULL /\ ~h[ptr].live

\* The allocator contract: the set of possible outcomes of allocator(ptr, size).
\*   ptr NULL          : a fresh block, or NULL when the request cannot be met
\*   ptr live, size 0  : the block is released, NULL is returned
\*   ptr live, size >0 : resized in place or moved (old pointer invalid),
\*                       or NULL with the old block untouched
\* A ptr that is not a live block is a contract violation: nothing is done.
alloc_t(h, ptr, size) ==
  IF ptr = NULL
    THEN {[ret |-> NULL, heap |-> h]}
         \cup {[ret |-> a, heap |-> [h EXCEPT ![a] = Fresh(size)]] : a \in NewAddrs(h)}
  ELSE IF ~h[ptr].live
    THEN {[ret |-> NULL, heap |-> h]}
  ELSE IF size = 0
    THEN {[ret |-> NULL, heap |-> [h EXCEPT ![ptr] = FreeBlock]]}
  ELSE {[ret |-> NULL, heap |-> h]}
       \cup {[ret |-> ptr, heap |-> [h EXCEPT ![ptr] = Resized(h[ptr], size)]]}
       \cup {[ret |-> a,
              heap |-> [h EXCEPT ![a] = Resized(h[ptr], size), ![ptr] = FreeBlock]]
             : a \in NewAddrs(h)}

allocIn(h, size) == alloc_t(h, NULL, size)
reallocIn(h, ptr, size) == alloc_t(h, ptr, size)
freeIn(h, ptr) == alloc_t(h, ptr, 0)

\* the bytes of the element value v, as memcpy reads them from *elem
ElemBytes(v, n) == [j \in 1..n |-> 10 * v + j]

\* memcpy(&buf[off], bytes, n) into block blk; bytes that fall outside the
\* block are not stored in it
StoreBytes(blk, off, bytes) ==
  [blk EXCEPT !.data =
     [i \in 1..Len(blk.data) |->
        IF i > off /\ i <= off + Len(bytes) THEN bytes[i - off] ELSE blk.data[i]]]

\* what a store of n bytes at &buf[off] runs into
StoreFault(h, buf, off, n) ==
  IF buf = NULL THEN "null_write"
  ELSE IF ~h[buf].live THEN "freed_write"
  ELSE IF off + n > Len(h[buf].data) THEN "oob_write"
  ELSE "none"

\* the n bytes a reference ref = &buf[off] designates; indeterminate outside
\* a live block
Deref(h, ref, n) ==
  [j \in 1..n |->
     IF ref.blk # NULL /\ h[ref.blk].live /\ ref.off + j <= Len(h[ref.blk].data)
       THEN h[ref.blk].data[ref.off + j]
       ELSE Indet]

NullRef == [blk |-> NULL, off |-> 0]

\* element i (0-based) of the buffer's storage
ElemAt(h, a, i, n) == Deref(h, [blk |-> a.buf, off |-> i * n], n)

(* --------------------------- growable buffer -------------------------- *)
\* The record of the last call: the operation, its result ("true", "false",
\* "ref", "void", or "none" when the call never returned), the reference
\* returned, the fault met, what the allocator did ("none": not called,
\* "block": returned a block, "null": returned NULL to a request for memory,
\* "freed": released the block), for a push the value pushed, and for a push
\* or a successful resize the length before the call.
\* wrapped tells that the byte count the call computed for the allocator is
\* not the product of its factors, because the product exceeds SIZE_MAX.
Call(op, ret, ref, fault, alloc, wrapped, v, len0) ==
  [op |-> op, ret |-> ret, ref |-> ref, fault |-> fault, alloc |-> alloc,
   wrapped |-> wrapped, v |-> v, len0 |-> len0]

NoCall == Call("none", "void", NullRef, "none", "none", FALSE, 0, 0)

\* the product a * b does not fit size_t
Wraps(a, b) == a * b > SIZE_MAX

\* what allocator(ptr, size) did, given the pointer it returned
AllocResult(ptr, size, ret) ==
  IF ret # NULL THEN "block"
  ELSE IF ptr # NULL /\ size = 0 THEN "freed"
  ELSE "null"

\* hist.vals are the values of the pushes that returned true since the last
\* successful init, as long as nothing but pushes and peeks was called
NoHist == [only_pushes |-> FALSE, vals |-> <<>>]

AllocFault(h, ptr) == IF Dangling(h, ptr) THEN "bad_ptr" ELSE "none"

\* the process is terminated inside the call
Crash(op, a, h, fault, alloc, wrapped, v) ==
  /\ fault # "none"
  /\ heap' = h
  /\ arr' = a
  /\ status' = "crashed"
  /\ hist' = NoHist
  /\ last' = Call(op, "none", NullRef, fault, alloc, wrapped, v, 0)

\* cap0 * size < size, in size_t
InitOverflows(cap0, size) == (cap0 * size) % SizeMod < size

_dynarr_init(cap0, size) ==
  /\ status \in {"uninit", "deinit"}
  /\ UNCHANGED elemSize
  /\ IF cap0 = 0
       THEN /\ UNCHANGED <<heap, arr, status, hist>>
            /\ last' = Call("init", "false", NullRef, "none", "none", FALSE, 0, 0)
     ELSE IF InitOverflows(cap0, size)
       THEN /\ UNCHANGED <<heap, arr, status, hist>>
            /\ last' = Call("init", "false", NullRef, "none", "none", FALSE, 0, 0)
     ELSE LET req == (cap0 * size) % SizeMod IN
          \E o \in allocIn(heap, req) :
            /\ heap' = o.heap
            /\ IF o.ret = NULL
                 THEN /\ arr' = [arr EXCEPT !.buf = NULL]
                      /\ UNCHANGED <<status, hist>>
                      /\ last' = Call("init", "false", NullRef, "none", "null", Wraps(cap0, size), 0, 0)
                 ELSE /\ arr' = [cap |-> cap0, len |-> 0, buf |-> o.ret]
                      /\ status' = "live"
                      /\ hist' = [only_pushes |-> TRUE, vals |-> <<>>]
                      /\ last' = Call("init", "true", NullRef, "none", "block", Wraps(cap0, size), 0, 0)

_dynarr_deinit ==
  /\ status = "live"
  /\ UNCHANGED elemSize
  /\ LET fault == AllocFault(heap, arr.buf)
         a1 == [arr EXCEPT !.cap = 0, !.len = 0] IN
     \E o \in freeIn(heap, arr.buf) :
       \/ /\ heap' = o.heap
          /\ arr' = [a1 EXCEPT !.buf = NULL]
          /\ status' = "deinit"
          /\ hist' = NoHist
          /\ last' = Call("deinit", "void", NullRef, fault,
                          AllocResult(arr.buf, 0, o.ret), FALSE, 0, 0)
       \/ Crash("deinit", a1, heap, fault, "none", FALSE, 0)

\* arr->cap >= SIZE_MAX/2
CapAtLimit(cap) == cap >= SIZE_MAX \div 2

\* a growth policy that adds one slot
GrowCap_ByOne(cap) == (cap + 1) % SizeMod

\* arr->cap *= 2, in size_t
GrowCap(cap) == (cap * 2) % SizeMod

\* the test after the reallocation in _dynarr_push: it reads arr->buf, which
\* still holds the pointer passed to the allocator, not the pointer returned
GrowFailed(buf, new) == buf = NULL

\* elemSize * index, in size_t: the byte offset of a slot
SlotOffset(size, index) == (size * index) % SizeMod

\* memcpy of the element to the tail slot and arr->len += 1, on the buffer a
\* and the memory h
PushStore(a, h, v, size, allocFault, alloc, wrapped) ==
  LET off == SlotOffset(size, a.len)
      sf == StoreFault(h, a.buf, off, size)
      fault == IF allocFault # "none" THEN allocFault ELSE sf
      stored == IF a.buf # NULL /\ h[a.buf].live
                  THEN [h EXCEPT ![a.buf] = StoreBytes(h[a.buf], off, ElemBytes(v, size))]
                  ELSE h
  IN \/ /\ heap' = stored
        /\ arr' = [a EXCEPT !.len = (a.len + 1) % SizeMod]
        /\ UNCHANGED status
        /\ hist' = IF hist.only_pushes
                     THEN [hist EXCEPT !.vals = Append(hist.vals, v)] ELSE hist
        /\ last' = Call("push", "true", NullRef, fault, alloc, wrapped, v, arr.len)
     \/ Crash("push", a, h, fault, alloc, wrapped, v)

_dynarr_push(v, size) ==
  /\ status = "live"
  /\ UNCHANGED elemSize
  /\ IF arr.cap = 0
       THEN Crash("push", arr, heap, "assert", "none", FALSE, v)
     ELSE IF arr.len = arr.cap
       THEN IF CapAtLimit(arr.cap)
              THEN /\ UNCHANGED <<heap, arr, status, hist>>
                   /\ last' = Call("push", "false", NullRef, "none", "none", FALSE, v, arr.len)
              ELSE LET a1 == [arr EXCEPT !.cap = GrowCap(arr.cap)]
                       req == (a1.cap * size) % SizeMod
                       wr == Wraps(a1.cap, size)
                       af == AllocFault(heap, arr.buf) IN
                   \E o \in reallocIn(heap, arr.buf, req) :
                     IF GrowFailed(arr.buf, o.ret)
                       THEN /\ heap' = o.heap
                            /\ arr' = a1
                            /\ UNCHANGED <<status, hist>>
                            /\ last' = Call("push", "false", NullRef, af,
                                            AllocResult(arr.buf, req, o.ret), wr, v, arr.len)
                       ELSE PushStore([a1 EXCEPT !.buf = o.ret], o.heap, v, size, af,
                                      AllocResult(arr.buf, req, o.ret), wr)
     ELSE PushStore(arr, heap, v, size, "none", "none", FALSE)

_dynarr_peek(size) ==
  /\ status = "live"
  /\ UNCHANGED <<heap, arr, elemSize, status, hist>>
  /\ last' = IF arr.len = 0
               THEN Call("peek", "ref", NullRef, "none", "none", FALSE, 0, 0)
               ELSE Call("peek", "ref",
                         [blk |-> arr.buf, off |-> SlotOffset(size, arr.len - 1)],
                         "none", "none", FALSE, 0, 0)

_dynarr_pop(size) ==
  /\ status = "live"
  /\ UNCHANGED <<heap, elemSize, status>>
  /\ hist' = NoHist
  /\ IF arr.len = 0
       THEN /\ UNCHANGED arr
            /\ last' = Call("pop", "ref", NullRef, "none", "none", FALSE, 0, 0)
       ELSE /\ arr' = [arr EXCEPT !.len = arr.len - 1]
            /\ last' = Call("pop", "ref",
                            [blk |-> arr.buf, off |-> SlotOffset(size, arr.len - 1)],
                            "none", "none", FALSE, 0, 0)

\* the byte count _dynarr_resize passes to the allocator
ResizeReq(cap, newCap, size) == (cap * size) % SizeMod

\* a resize that forgets to truncate the length
ResizeLen_NoTruncate(newCap, len) == len

\* the length after a resize to newCap
ResizeLen(newCap, len) == IF newCap < len THEN newCap ELSE len

_dynarr_resize(newCap, size) ==
  /\ status = "live"
  /\ UNCHANGED elemSize
  /\ IF newCap = 0
       THEN /\ UNCHANGED <<heap, arr, status, hist>>
            /\ last' = Call("resize", "false", NullRef, "none", "none", FALSE, 0, 0)
       ELSE LET req == ResizeReq(arr.cap, newCap, size)
                wr == Wraps(arr.cap, size)
                fault == AllocFault(heap, arr.buf) IN
            \E o \in reallocIn(heap, arr.buf, req) :
              \/ /\ heap' = o.heap
                 /\ UNCHANGED status
                 /\ IF o.ret = NULL
                      THEN /\ UNCHANGED <<arr, hist>>
                           /\ last' = Call("resize", "false", NullRef, fault,
                                           AllocResult(arr.buf, req, o.ret), wr, 0, 0)
                      ELSE /\ arr' = [cap |-> newCap,
                                      len |-> ResizeLen(newCap, arr.len),
                                      buf |-> o.ret]
                           /\ hist' = NoHist
                           /\ last' = Call("resize", "true", NullRef, fault,
                                           "block", wr, 0, arr.len)
              \/ Crash("resize", arr, heap, fault, "none", wr, 0)

\* the record of the last call of std_aalloc: the alignment and size asked
\* for, the result, the branch taken and the fault met
ACall(alignment, size, ret, path, fault) ==
  [alignment |-> alignment, size |-> size, ret |-> ret, path |-> path,
   fault |-> fault]

NoACall == ACall(0, 0, NULL, "none", "none")

\* the record of the last call on a tagged pointer: the pointer or tagged
\* word passed, the tag passed, and the value returned (Aborted when an
\* assertion failed; 1 and 0 for the bool of is_taggable)
TCall(op, ptr, tag, ret) == [op |-> op, ptr |-> ptr, tag |-> tag, ret |-> ret]

NoTCall == TCall("none", 0, 0, 0)

\* the record of the last call of alignUp or alignDown
MCall(op, bits, alignment_pow2, ret) ==
  [op |-> op, bits |-> bits, alignment_pow2 |-> alignment_pow2, ret |-> ret]

NoMCall == MCall("none", 0, 0, 0)

\* the record of the last call on a slice: the index or element count
\* passed, the address returned, and the slice before the call
SCall(op, n, ret, before) == [op |-> op, n |-> n, ret |-> ret, before |-> before]

\* _larr_mk(0, NULL)
NoSlice == [len |-> 0, arr |-> NullRef]

NoSCall == SCall("none", 0, NullRef, NoSlice)

\* no tagged pointer, alignment or slice call has been made
PureIdle ==
  /\ tp = 0 /\ tcall = NoTCall
  /\ mcall = NoMCall
  /\ slice = NoSlice /\ scall = NoSCall

Init ==
  /\ heap = [a \in Addrs |-> FreeBlock]
  /\ arr = [cap |-> 0, len |-> 0, buf |-> NULL]
  /\ elemSize \in ElemSizes
  /\ status = "uninit"
  /\ last = NoCall
  /\ hist = NoHist
  /\ nops = 0
  /\ own = NULL
  /\ acall = NoACall
  /\ PureIdle

\* one more call by the client of the buffer
Step ==
  /\ nops < MaxOps /\ nops' = nops + 1
  /\ UNCHANGED <<own, acall>> /\ UNCHANGED pureVars

Next ==
  \/ Step /\ \E cap0 \in SizeT : _dynarr_init(cap0, elemSize)
  \/ Step /\ \E v \in Vals : _dynarr_push(v, elemSize)
  \/ Step /\ _dynarr_peek(elemSize)
  \/ Step /\ _dynarr_pop(elemSize)
  \/ Step /\ \E newCap \in SizeT : _dynarr_resize(newCap, elemSize)
  \/ Step /\ _dynarr_deinit

Spec == Init /\ [][Next]_vars

(* ------------------------ aligned reallocation ------------------------ *)
\* the C library's allocator, which may place a block at any free address
IsPow2(n) == \E k \in 0..(W - 1) : n = 2^k

\* the least power of two that is at least n
RoundUpPow2(n) == CHOOSE p \in {2^k : k \in 0..W} : p >= n /\ \A q \in {2^k : k \in 0..W} : q >= n => p <= q

\* aligned_alloc(alignment, size) of the C library: NULL, or a fresh block
\* at a multiple of the alignment.  An alignment that is no power of two is
\* refused, or rounded up to one by older libraries.
aligned_alloc(h, alignment, size) ==
  {[ret |-> NULL, heap |-> h]}
  \cup {[ret |-> a, heap |-> [h EXCEPT ![a] = Fresh(size)]]
         : a \in {x \in FreeAddrs(h) : x % RoundUpPow2(alignment) = 0}}

\* realloc(ptr, size) of the C library, for a live ptr and size > 0
realloc(h, ptr, size) ==
  IF Dangling(h, ptr) THEN {[ret |-> NULL, heap |-> h]}
  ELSE {[ret |-> NULL, heap |-> h]}
       \cup {[ret |-> ptr, heap |-> [h EXCEPT ![ptr] = Resized(h[ptr], size)]]}
       \cup {[ret |-> a,
              heap |-> [h EXCEPT ![a] = Resized(h[ptr], size), ![ptr] = FreeBlock]]
             : a \in FreeAddrs(h)}

\* free(ptr) of the C library; free(NULL) does nothing
free(h, ptr) == IF ptr = NULL THEN h ELSE [h EXCEPT ![ptr] = FreeBlock]

\* the conversion of a size_t to the unsigned int parameter of
\* __builtin_popcount and __builtin_ctz
ToUInt(n) == n % (2^IntW)

RECURSIVE __builtin_popcount(_)
__builtin_popcount(n) == IF n = 0 THEN 0 ELSE (n % 2) + __builtin_popcount(n \div 2)

RECURSIVE __builtin_ctz(_)
__builtin_ctz(n) == IF n % 2 = 1 THEN 0 ELSE 1 + __builtin_ctz(n \div 2)

\* an alignment test that takes the null pointer for unaligned
is_aligned_NullUnaligned(ptr, log_alignment) ==
  ptr # NULL /\ ptr % (2^log_alignment) = 0

\* an alignment test that accepts every pointer
is_aligned_Always(ptr, log_alignment) == TRUE

\* ((uintptr_t)ptr & (((size_t)1 << log_alignment) - 1)) == 0
is_aligned(ptr, log_alignment) == ptr % (2^log_alignment) = 0

\* what memcpy(dst, src, n) runs into
CopyFault(h, dst, src, n) ==
  IF src = NULL \/ dst = NULL THEN "null_copy"
  ELSE IF ~h[src].live \/ ~h[dst].live THEN "freed_copy"
  ELSE IF n > Len(h[src].data) THEN "oob_read"
  ELSE IF n > Len(h[dst].data) THEN "oob_write"
  ELSE "none"

\* a copy that leaves out the last of the n bytes
memcpy_Short(h, dst, src, n) ==
  IF dst = NULL \/ ~h[dst].live THEN h
  ELSE [h EXCEPT ![dst].data =
          [i \in 1..Len(h[dst].data) |->
             IF i < n
               THEN Deref(h, [blk |-> src, off |-> 0], n)[i]
               ELSE h[dst].data[i]]]

\* memcpy(dst, src, n): bytes read outside a live block are indeterminate,
\* bytes written outside the block are not stored in it
memcpy(h, dst, src, n) ==
  IF dst = NULL \/ ~h[dst].live THEN h
  ELSE [h EXCEPT ![dst].data =
          [i \in 1..Len(h[dst].data) |->
             IF i <= n
               THEN Deref(h, [blk |-> src, off |-> 0], n)[i]
               ELSE h[dst].data[i]]]

\* std_aalloc(ptr, alignment, size); the caller keeps the block returned,
\* and keeps its old block when a reallocation returns NULL
aligned_realloc(ptr, alignment, size) ==
  /\ acall.path # "crashed"
  /\ UNCHANGED <<bufferVars, pureVars>>
  /\ IF ptr = NULL
       THEN \E o \in aligned_alloc(heap, alignment, size) :
              /\ heap' = o.heap
              /\ own' = o.ret
              /\ acall' = ACall(alignment, size, o.ret, "fresh", "none")
     ELSE IF size = 0
       THEN /\ heap' = free(heap, ptr)
            /\ own' = NULL
            /\ acall' = ACall(alignment, size, NULL, "free", AllocFault(heap, ptr))
     ELSE IF __builtin_popcount(ToUInt(alignment)) # 1
       THEN /\ UNCHANGED <<heap, own>>
            /\ acall' = ACall(alignment, size, NULL, "reject", "none")
     ELSE \E r \in aligned_alloc(heap, alignment, size) :
            IF r.ret = NULL
              THEN /\ UNCHANGED <<heap, own>>
                   /\ acall' = ACall(alignment, size, NULL, "no_reserve", "none")
              ELSE \E t \in realloc(r.heap, ptr, size) :
                     IF is_aligned(t.ret, __builtin_ctz(ToUInt(alignment)))
                       THEN /\ heap' = free(t.heap, r.ret)
                            /\ own' = IF t.ret = NULL THEN own ELSE t.ret
                            /\ acall' = ACall(alignment, size, t.ret, "cheap",
                                              AllocFault(r.heap, ptr))
                       ELSE LET fault == CopyFault(t.heap, r.ret, t.ret, size) IN
                            \/ /\ heap' = free(memcpy(t.heap, r.ret, t.ret, size), t.ret)
                               /\ own' = r.ret
                               /\ acall' = ACall(alignment, size, r.ret, "copy", fault)
                            \/ /\ fault # "none"
                               /\ heap' = t.heap
                               /\ own' = own
                               /\ acall' = ACall(alignment, size, NULL, "crashed", fault)

\* the bytes the caller writes into its block
Pattern(n) == [i \in 1..n |-> 100 + i]

\* the caller fills the block it holds
Fill ==
  /\ acall.path # "crashed"
  /\ own # NULL /\ heap[own].live
  /\ heap' = [heap EXCEPT ![own].data = Pattern(Len(heap[own].data))]
  /\ UNCHANGED <<own, acall>>
  /\ UNCHANGED <<bufferVars, pureVars>>

InitAligned ==
  /\ heap = [a \in Addrs |-> FreeBlock]
  /\ arr = [cap |-> 0, len |-> 0, buf |-> NULL]
  /\ elemSize = 1
  /\ status = "uninit"
  /\ last = NoCall
  /\ hist = NoHist
  /\ nops = 0
  /\ own = NULL
  /\ acall = NoACall
  /\ PureIdle

NextAligned ==
  \/ \E alignment \in SizeT, size \in Sizes : aligned_realloc(own, alignment, size)
  \/ Fill

SpecAligned == InitAligned /\ [][NextAligned]_vars

(* --------------------------- tagged pointers -------------------------- *)
\* alignof(max_align_t) of the build platform (x86-64, gcc)
alignof_max_align_t == 16

UPtrMod == 2^PtrW
UIntPtr == 0..(UPtrMod - 1)

\* a & b and a | b on unsigned words
RECURSIVE BitAnd(_, _)
BitAnd(a, b) ==
  IF a = 0 \/ b = 0 THEN 0
  ELSE (a % 2) * (b % 2) + 2 * BitAnd(a \div 2, b \div 2)

RECURSIVE BitOr(_, _)
BitOr(a, b) ==
  IF a = 0 THEN b
  ELSE IF b = 0 THEN a
  ELSE (IF a % 2 = 1 \/ b % 2 = 1 THEN 1 ELSE 0) + 2 * BitOr(a \div 2, b \div 2)

\* ~a on a uintptr_t
BitNot(a) == (UPtrMod - 1) - a

\* __builtin_ctz(alignof(max_align_t)); the operand is a compile-time
\* constant that fits unsigned int
CHIM_PTRTAGBITS_MAX == __builtin_ctz(alignof_max_align_t)

\* ~(uintptr_t)0 << CHIM_PTRTAGBITS_MAX
CHIM_PTRTAG_PTRMASK == (BitNot(0) * 2^CHIM_PTRTAGBITS_MAX) % UPtrMod

\* ~CHIM_PTRTAG_PTRMASK
CHIM_PTRTAG_BITSMASK == BitNot(CHIM_PTRTAG_PTRMASK)

\* the value of a call in which an assertion failed
Aborted == -1

\* (bits.u & CHIM_PTRTAG_PTRMASK) == 0
is_taggable(ptr) == BitAnd(ptr, CHIM_PTRTAG_PTRMASK) = 0

\* assert((tag & CHIM_PTRTAGBITS_MAX) == 0); out.u = ptr.u | tag
setTag(ptr, tag) ==
  IF BitAnd(tag, CHIM_PTRTAGBITS_MAX) # 0 THEN Aborted ELSE BitOr(ptr, tag)

\* assert(is_taggable(ptr)); return setTag(out, tag)
to_tagged_ptr(ptr, tag) ==
  IF ~is_taggable(ptr) THEN Aborted ELSE setTag(ptr, tag)

\* ptr.u & CHIM_PTRTAG_PTRMASK
unTag(ptr) == BitAnd(ptr, CHIM_PTRTAG_PTRMASK)

\* ptr.u & CHIM_PTRTAG_BITSMASK
getTag(ptr) == BitAnd(ptr, CHIM_PTRTAG_BITSMASK)

\* the process has not been aborted by an assertion
TagsRunning == tcall.ret # Aborted

TagsFrame == UNCHANGED <<heap, own, acall, mcall, slice, scall>> /\ UNCHANGED bufferVars

\* the client asks whether a pointer can be tagged, before it tags one
Call_is_taggable(ptr) ==
  /\ tcall.op = "none"
  /\ tcall' = TCall("is_taggable", ptr, 0, IF is_taggable(ptr) THEN 1 ELSE 0)
  /\ UNCHANGED tp
  /\ TagsFrame

\* the client makes its tagged pointer
Call_to_tagged_ptr(ptr, tag) ==
  /\ tcall.op \in {"none", "is_taggable"}
  /\ LET out == to_tagged_ptr(ptr, tag) IN
       /\ tcall' = TCall("to_tagged_ptr", ptr, tag, out)
       /\ tp' = IF out = Aborted THEN tp ELSE out
  /\ TagsFrame

\* the client changes the tag of its tagged pointer
Call_setTag(tag) ==
  /\ TagsRunning /\ tcall.op \notin {"none", "is_taggable"}
  /\ LET out == setTag(tp, tag) IN
       /\ tcall' = TCall("setTag", tp, tag, out)
       /\ tp' = IF out = Aborted THEN tp ELSE out
  /\ TagsFrame

Call_unTag ==
  /\ TagsRunning /\ tcall.op \notin {"none", "is_taggable"}
  /\ tcall' = TCall("unTag", tp, 0, unTag(tp))
  /\ UNCHANGED tp
  /\ TagsFrame

Call_getTag ==
  /\ TagsRunning /\ tcall.op \notin {"none", "is_taggable"}
  /\ tcall' = TCall("getTag", tp, 0, getTag(tp))
  /\ UNCHANGED tp
  /\ TagsFrame

InitTags ==
  /\ heap = [a \in Addrs |-> FreeBlock]
  /\ arr = [cap |-> 0, len |-> 0, buf |-> NULL]
  /\ elemSize = 1
  /\ status = "uninit"
  /\ last = NoCall
  /\ hist = NoHist
  /\ nops = 0
  /\ own = NULL
  /\ acall = NoACall
  /\ PureIdle

NextTags ==
  \/ \E ptr \in UIntPtr : Call_is_taggable(ptr)
  \/ \E ptr \in UIntPtr, tag \in UIntPtr : Call_to_tagged_ptr(ptr, tag)
  \/ \E tag \in UIntPtr : Call_setTag(tag)
  \/ Call_unTag
  \/ Call_getTag

SpecTags == InitTags /\ [][NextTags]_vars

(* ------------------------ alignment arithmetic ------------------------ *)
\* assert(__builtin_popcount(alignment_pow2) == 1), the size_t argument
\* converted to the unsigned int parameter of the builtin
AlignmentAsserted(alignment_pow2) ==
  __builtin_popcount(ToUInt(alignment_pow2)) = 1

\* uintptr_t mask = alignment_pow2 - 1
AlignMask(alignment_pow2) == (alignment_pow2 - 1) % UPtrMod

\* if ((bits & mask) != 0) bits += (~bits & mask) + 1; in uintptr_t
alignUp(bits, alignment_pow2) ==
  IF ~AlignmentAsserted(alignment_pow2) THEN Aborted
  ELSE LET mask == AlignMask(alignment_pow2) IN
       IF BitAnd(bits, mask) # 0
         THEN (bits + BitAnd(BitNot(bits), mask) + 1) % UPtrMod
         ELSE bits

\* bits & ~mask
alignDown(bits, alignment_pow2) ==
  IF ~AlignmentAsserted(alignment_pow2) THEN Aborted
  ELSE BitAnd(bits, BitNot(AlignMask(alignment_pow2)))

AlignFrame == UNCHANGED <<heap, own, acall, tp, tcall, slice, scall>> /\ UNCHANGED bufferVars

Call_alignUp(bits, alignment_pow2) ==
  /\ mcall.ret # Aborted
  /\ mcall' = MCall("alignUp", bits, alignment_pow2, alignUp(bits, alignment_pow2))
  /\ AlignFrame

Call_alignDown(bits, alignment_pow2) ==
  /\ mcall.ret # Aborted
  /\ mcall' = MCall("alignDown", bits, alignment_pow2, alignDown(bits, alignment_pow2))
  /\ AlignFrame

NextAlignment ==
  \/ \E bits \in UIntPtr, alignment_pow2 \in SizeT : Call_alignUp(bits, alignment_pow2)
  \/ \E bits \in UIntPtr, alignment_pow2 \in SizeT : Call_alignDown(bits, alignment_pow2)

SpecAlignment == InitTags /\ [][NextAlignment]_vars

(* ------------------------------- slices ------------------------------- *)
\* ptr + n on a char*; a pointer is the block it points into and the
\* offset from the block's start
PtrAdd(ptr, n) == IF n = 0 THEN ptr ELSE [ptr EXCEPT !.off = ptr.off + n]

\* _larr out = { .len = len, .arr = arr }
_larr_mk(len, ptr) == [len |-> len, arr |-> ptr]

\* an address lookup that accepts the index one past the last element
_larr_addrof_Inclusive(a, index, size) ==
  IF index <= a.len
    THEN PtrAdd(a.arr, (size * index) % SizeMod)
    ELSE NullRef

\* index < arr.len ? arr.arr + elemSize * index : NULL
_larr_addrof(a, index, size) ==
  IF index < a.len
    THEN PtrAdd(a.arr, (size * index) % SizeMod)
    ELSE NullRef

\* an advance that does not clamp numElems to the length
_larr_advance_NoClamp(a, numElems, size) ==
  [len |-> (a.len - numElems) % SizeMod,
   arr |-> PtrAdd(a.arr, (size * numElems) % SizeMod)]

\* if (numElems > arr->len) numElems = arr->len;
\* arr->len -= numElems; arr->arr += elemSize * numElems
_larr_advance(a, numElems, size) ==
  LET n == IF numElems > a.len THEN a.len ELSE numElems IN
  [len |-> (a.len - n) % SizeMod,
   arr |-> PtrAdd(a.arr, (size * n) % SizeMod)]

\* if (numElems > arr->len) numElems = arr->len; arr->len -= numElems
_larr_shrink(a, numElems) ==
  LET n == IF numElems > a.len THEN a.len ELSE numElems IN
  [a EXCEPT !.len = (a.len - n) % SizeMod]

\* the block the slices are carved out of
Storage == 1

SliceFrame == UNCHANGED <<heap, own, acall, tp, tcall, mcall>> /\ UNCHANGED bufferVars

\* the owner of the storage makes a slice of len elements that starts off
\* bytes into the storage and lies within it
Call_larr_mk(len, off) ==
  /\ off + len * elemSize <= Len(heap[Storage].data)
  /\ slice' = _larr_mk(len, [blk |-> Storage, off |-> off])
  /\ scall' = SCall("mk", len, NullRef, slice)
  /\ SliceFrame

Call_larr_addrof(index) ==
  /\ scall.op # "none"
  /\ scall' = SCall("addrof", index, _larr_addrof(slice, index, elemSize), slice)
  /\ UNCHANGED slice
  /\ SliceFrame

Call_larr_advance(numElems) ==
  /\ scall.op # "none"
  /\ slice' = _larr_advance(slice, numElems, elemSize)
  /\ scall' = SCall("advance", numElems, NullRef, slice)
  /\ SliceFrame

Call_larr_shrink(numElems) ==
  /\ scall.op # "none"
  /\ slice' = _larr_shrink(slice, numElems)
  /\ scall' = SCall("shrink", numElems, NullRef, slice)
  /\ SliceFrame

InitSlice ==
  /\ elemSize \in ElemSizes
  /\ heap = [a \in Addrs |->
               IF a = Storage
                 THEN [live |-> TRUE, data |-> Pattern(MaxLen * elemSize)]
                 ELSE FreeBlock]
  /\ arr = [cap |-> 0, len |-> 0, buf |-> NULL]
  /\ status = "uninit"
  /\ last = NoCall
  /\ hist = NoHist
  /\ nops = 0
  /\ own = NULL
  /\ acall = NoACall
  /\ PureIdle

NextSlice ==
  \/ \E len \in 0..MaxLen, off \in 0..(MaxLen * elemSize) : Call_larr_mk(len, off)
  \/ \E index \in SizeT : Call_larr_addrof(index)
  \/ \E numElems \in SizeT : Call_larr_advance(numElems)
  \/ \E numElems \in SizeT : Call_larr_shrink(numElems)

SpecSlice == InitSlice /\ [][NextSlice]_vars

(* -------------------- claims on aligned reallocation ------------------ *)
\* a step that is the call std_aalloc(own, alignment, size) recorded in acall'
AlignedCall == aligned_realloc(own, acall'.alignment, acall'.size)

\* C3: an aligned reallocation of an existing block (ptr non-null, size > 0,
\* power-of-two alignment) that returns NULL leaves the heap as it was: the
\* original block is still allocated with its content, the reservation is
\* released, and no copy or free went through a null intermediate result.
C3_FailedReallocKeepsBlock ==
  [][(/\ AlignedCall
      /\ own # NULL /\ acall'.size > 0 /\ IsPow2(acall'.alignment)
      /\ acall'.ret = NULL)
     => (/\ heap' = heap
         /\ heap'[own].live
         /\ own' = own
         /\ acall'.fault = "none"
         /\ acall'.path \in {"reject", "no_reserve", "cheap"})]_vars

\* the plain realloc failed after the reservation was made, on a filled block
C3_Witness ==
  /\ acall.path = "cheap" /\ acall.ret = NULL
  /\ IsPow2(acall.alignment) /\ acall.size > 0
  /\ own # NULL /\ heap[own].live
  /\ Len(heap[own].data) > 0
  /\ heap[own].data = Pattern(Len(heap[own].data))
  /\ \A a \in Addrs \ {own} : ~heap[a].live

\* C4: every non-null pointer std_aalloc returns for a power-of-two alignment
\* is a multiple of that alignment, on the fresh, the cheap and the copy path.
C4_ReturnedPointerAligned ==
  (acall.ret # NULL /\ IsPow2(acall.alignment))
    => (/\ acall.path \in {"fresh", "cheap", "copy"}
        /\ acall.ret % acall.alignment = 0)

\* the copy path returned the reservation for an alignment above one
C4_Witness ==
  /\ acall.path = "copy" /\ acall.ret # NULL
  /\ IsPow2(acall.alignment) /\ acall.alignment > 1
  /\ acall.ret % acall.alignment = 0

\* C5: a successful aligned reallocation of a block of s0 bytes to s bytes
\* returns a live block of s bytes whose first min(s0, s) bytes are the bytes
\* the original block held, and the copy reads no byte outside the
\* intermediate block.
C5_ContentPreserved ==
  [][(/\ AlignedCall
      /\ own # NULL /\ acall'.size > 0
      /\ acall'.ret # NULL)
     => (/\ acall'.fault = "none"
         /\ heap'[acall'.ret].live
         /\ Len(heap'[acall'.ret].data) = acall'.size
         /\ \A i \in 1..Min(Len(heap[own].data), acall'.size) :
              heap'[acall'.ret].data[i] = heap[own].data[i])]_vars

\* the copy path grew a filled block: the old bytes lead, the new byte is
\* indeterminate
C5_Witness ==
  /\ acall.path = "copy" /\ acall.ret = own /\ own # NULL
  /\ Len(heap[own].data) >= 2
  /\ heap[own].data[1] = Pattern(1)[1]
  /\ heap[own].data[Len(heap[own].data)] = Indet

\* C22: for an existing block and size > 0, aligned_realloc returns NULL
\* with the heap untouched for every alignment that is no exact power of
\* two, and rejects no alignment that is an exact power of two on account
\* of its value.
C22_RejectsNonPowerOfTwo ==
  [][(AlignedCall /\ own # NULL /\ acall'.size > 0)
     => IF IsPow2(acall'.alignment)
          THEN acall'.path # "reject"
          ELSE /\ acall'.path = "reject"
               /\ acall'.ret = NULL
               /\ heap' = heap /\ own' = own]_vars

(* ------------------------- claims on the buffer ----------------------- *)
\* C1: a _dynarr_push or _dynarr_resize call that fails (returns false, or
\* is refused memory by the allocator) leaves capacity, length and storage
\* pointer as they were before the call, with the storage block still
\* allocated and unchanged.
C1_FailedCallKeepsBuffer ==
  [][(last'.op \in {"push", "resize"}
       /\ (last'.ret = "false" \/ last'.alloc = "null"))
     => (/\ arr' = arr
         /\ arr.buf # NULL /\ heap[arr.buf].live => heap'[arr.buf] = heap[arr.buf])]_vars

\* C2: a push on a full buffer below the capacity limit whose growth request
\* is refused by the allocator returns false: it neither aborts nor stores
\* the element through a null storage pointer.
C2_PushReportsAllocFailure ==
  [][(last'.op = "push" /\ arr.len = arr.cap /\ ~CapAtLimit(arr.cap)
       /\ last'.alloc = "null")
     => (last'.ret = "false" /\ last'.fault = "none" /\ status' # "crashed")]_vars

\* C6: in every reachable state the length of the buffer is at most its
\* capacity.
C6_LenLeCap == arr.len <= arr.cap

\* a resize has truncated the buffer, which is full at the new capacity
C6_Witness ==
  /\ status = "live" /\ last.op = "resize" /\ last.ret = "true"
  /\ arr.len = arr.cap /\ arr.len > 0

\* C7: _dynarr_init(cap0, size) returns false without asking the allocator
\* whenever cap0 = 0 or the product cap0 * size exceeds SIZE_MAX; it returns
\* false when the allocator fails; otherwise it returns true with length 0,
\* capacity cap0 and a block of cap0 * size bytes.
C7_InitRejectsOverflow ==
  [][\A cap0 \in SizeT :
       _dynarr_init(cap0, elemSize) =>
         IF cap0 = 0 \/ cap0 * elemSize > SIZE_MAX
           THEN last'.ret = "false" /\ last'.alloc = "none"
         ELSE IF last'.alloc = "null"
           THEN last'.ret = "false"
         ELSE /\ last'.ret = "true"
              /\ arr'.len = 0 /\ arr'.cap = cap0
              /\ arr'.buf # NULL /\ heap'[arr'.buf].live
              /\ Len(heap'[arr'.buf].data) = cap0 * elemSize]_vars

\* C8: after a successful init and N successful pushes the length is N and
\* element i of the storage holds the i-th pushed value, for every i < N.
C8_PushedElementsStored ==
  (status = "live" /\ hist.only_pushes)
    => /\ arr.len = Len(hist.vals)
       /\ \A i \in 1..Len(hist.vals) :
            ElemAt(heap, arr, i - 1, elemSize) = ElemBytes(hist.vals[i], elemSize)

\* C9: a successful push(v) immediately followed by a pop returns a
\* reference to a slot that holds v, and the length after the pop is the
\* length before the push.
C9_PushThenPop ==
  [][(last.op = "push" /\ last.ret = "true" /\ last'.op = "pop")
     => (/\ Deref(heap', last'.ref, elemSize) = ElemBytes(last.v, elemSize)
         /\ arr'.len = last.len0)]_vars

\* C10: a successful resize(newCap) with 0 < newCap < length sets the length
\* to newCap and keeps elements 0..newCap-1; a successful push right after
\* it stores its element at index newCap; a resize with newCap >= length
\* leaves the length unchanged; resize(0) fails.
C10_ResizeTruncates ==
  [][/\ \A newCap \in SizeT :
          _dynarr_resize(newCap, elemSize) =>
            /\ (last'.ret = "true" /\ 0 < newCap /\ newCap < arr.len)
                 => /\ arr'.len = newCap
                    /\ \A i \in 0..(newCap - 1) :
                         ElemAt(heap', arr', i, elemSize) = ElemAt(heap, arr, i, elemSize)
            /\ newCap >= arr.len => arr'.len = arr.len
            /\ newCap = 0 => last'.ret = "false"
     /\ (last.op = "resize" /\ last.ret = "true" /\ arr.cap < last.len0
           /\ last'.op = "push" /\ last'.ret = "true")
          => /\ arr'.len = arr.cap + 1
             /\ ElemAt(heap', arr', arr.cap, elemSize) = ElemBytes(last'.v, elemSize)]_vars

\* C11: _dynarr_deinit releases the buffer's storage block through the
\* injected allocator exactly once (the block was allocated before the call
\* and is released after it, with no fault), releases no other block, and
\* leaves length 0, capacity 0 and a null storage pointer.
C11_DeinitReleasesStorage ==
  [][_dynarr_deinit
     => (/\ last'.fault = "none" /\ status' = "deinit"
         /\ arr' = [cap |-> 0, len |-> 0, buf |-> NULL]
         /\ arr.buf # NULL => heap[arr.buf].live /\ ~heap'[arr.buf].live
         /\ \A a \in Addrs \ {arr.buf} : heap[a].live => heap'[a] = heap[a])]_vars

\* C19: after a successful _dynarr_resize(newCap) the storage block has
\* newCap * elemSize bytes, for growing and for shrinking resizes.
C19_ResizeRequestsNewCap ==
  [][(_dynarr_resize(arr'.cap, elemSize) /\ last'.ret = "true")
     => (/\ arr'.buf # NULL /\ heap'[arr'.buf].live
         /\ Len(heap'[arr'.buf].data) = arr'.cap * elemSize)]_vars

\* C20: no push and no resize takes the buffer from a capacity whose byte
\* count capacity * elemSize fits size_t to one whose byte count exceeds
\* SIZE_MAX, and none asks the allocator for a byte count that wrapped
\* modulo 2^W; so the product fits in every state reached from a successful
\* init of a capacity that fits.
C20_CapacityBytesFit ==
  [][(last'.op \in {"push", "resize"} /\ arr.cap * elemSize <= SIZE_MAX)
     => (/\ status' = "live" => arr'.cap * elemSize <= SIZE_MAX
         /\ ~last'.wrapped)]_vars

\* C21: a push with length < capacity does not call the allocator and
\* leaves capacity and storage pointer unchanged; the capacity changes only
\* in a push on a full buffer, and a push on a full buffer that returns true
\* leaves exactly twice the previous capacity and one more element; a push
\* on a full buffer whose capacity is at or above half of SIZE_MAX returns
\* false.
C21_PushDoublesWhenFull ==
  [][(last'.op = "push")
     => (/\ arr.len < arr.cap
              => /\ last'.alloc = "none"
                 /\ arr'.cap = arr.cap /\ arr'.buf = arr.buf
         /\ arr'.cap # arr.cap => arr.len = arr.cap
         /\ (arr.len = arr.cap /\ last'.ret = "true")
              => /\ arr'.cap = 2 * arr.cap
                 /\ arr'.len = arr.len + 1
         /\ (arr.len = arr.cap /\ arr.cap >= SIZE_MAX \div 2)
              => /\ last'.ret = "false"
                 /\ last'.alloc = "none"
                 /\ arr' = arr)]_vars

\* a push on a full buffer of two or more elements has doubled the
\* capacity and stored its element in the first new slot
C21_Witness ==
  /\ status = "live" /\ last.op = "push" /\ last.ret = "true"
  /\ last.alloc = "block" /\ last.fault = "none"
  /\ last.len0 >= 2
  /\ arr.cap = 2 * last.len0 /\ arr.len = last.len0 + 1
  /\ ElemAt(heap, arr, last.len0, elemSize) = ElemBytes(last.v, elemSize)

\* the storage pointer of buffer a is a live block of at least
\* capacity * elemSize bytes
BlockCoversCapacity(a, h) ==
  /\ a.buf # NULL /\ h[a.buf].live
  /\ Len(h[a.buf].data) >= a.cap * elemSize

\* C23: no successful push, pop, peek or resize takes the buffer from a
\* storage block of at least capacity * elemSize bytes to a smaller one;
\* the element copy of such a push and the reference returned by such a
\* peek or pop lie inside the allocated block.  So the block covers the
\* capacity in every state reached from an init that allocated
\* cap0 * elemSize bytes.
C23_BlockCoversCapacity ==
  [][(/\ last'.op \in {"push", "pop", "peek", "resize"}
      /\ last'.ret \in {"true", "ref"}
      /\ BlockCoversCapacity(arr, heap))
     => (/\ BlockCoversCapacity(arr', heap')
         /\ last'.fault = "none"
         /\ last'.ref # NullRef
              => /\ last'.ref.blk = arr'.buf
                 /\ last'.ref.off + elemSize <= Len(heap'[arr'.buf].data))]_vars

\* C24: once the buffer has been deinitialized every block obtained from
\* the allocator has been released (no block is still allocated), and no
\* call has passed the allocator a pointer that is not a live block (no
\* second release).
C24_NoLeakNoDoubleFree ==
  /\ status = "deinit" => \A a \in Addrs : ~heap[a].live
  /\ last.fault # "bad_ptr"

(* ----------------------- claims on tagged pointers -------------------- *)
\* the number of values a tag may take: 2^tagBits
TagLimit == 2^CHIM_PTRTAGBITS_MAX

\* a step that is the call to_tagged_ptr(ptr, tag) recorded in tcall'
TaggingCall == Call_to_tagged_ptr(tcall'.ptr, tcall'.tag)

\* C12: for every pointer that is a multiple of 2^tagBits and every tag
\* below 2^tagBits, to_tagged_ptr(ptr, tag) yields a word from which unTag
\* gives back ptr and getTag gives back tag.
C12_TagRoundTrip ==
  [][(TaggingCall /\ tcall'.ptr % TagLimit = 0 /\ tcall'.tag < TagLimit)
     => (/\ tcall'.ret # Aborted
         /\ unTag(tcall'.ret) = tcall'.ptr
         /\ getTag(tcall'.ret) = tcall'.tag)]_vars

\* C13: is_taggable(ptr) is true exactly when the address is a multiple of
\* 2^tagBits.
C13_TaggableIffAligned ==
  [][Call_is_taggable(tcall'.ptr)
     => ((tcall'.ret = 1) <=> (tcall'.ptr % TagLimit = 0))]_vars

\* C14: to_tagged_ptr(ptr, tag) fails its assertion exactly when ptr is no
\* multiple of 2^tagBits or tag is 2^tagBits or more.
C14_TaggingAssertion ==
  [][TaggingCall
     => ((tcall'.ret = Aborted)
           <=> (tcall'.ptr % TagLimit # 0 \/ tcall'.tag >= TagLimit))]_vars

\* C15: for every tagged pointer and every new tag below 2^tagBits, setTag
\* replaces the tag and keeps the pointer.
C15_SetTagReplaces ==
  [][(Call_setTag(tcall'.tag) /\ tcall'.tag < TagLimit)
     => (/\ tcall'.ret # Aborted
         /\ getTag(tcall'.ret) = tcall'.tag
         /\ unTag(tcall'.ret) = unTag(tp))]_vars

(* -------------------- claims on alignment arithmetic ------------------ *)
\* C16: for every x and every power of two p, alignUp and alignDown return
\* (no assertion fails), alignDown(x,p) <= x <= alignUp(x,p) <
\* alignDown(x,p) + p, both results are multiples of p, and both are x when
\* x is a multiple of p.
C16_AlignBounds ==
  [][((\/ Call_alignUp(mcall'.bits, mcall'.alignment_pow2)
       \/ Call_alignDown(mcall'.bits, mcall'.alignment_pow2))
      /\ IsPow2(mcall'.alignment_pow2))
     => LET x == mcall'.bits
            p == mcall'.alignment_pow2
            up == alignUp(x, p)
            down == alignDown(x, p) IN
        /\ up # Aborted /\ down # Aborted
        /\ down <= x /\ x <= up /\ up < down + p
        /\ up % p = 0 /\ down % p = 0
        /\ x % p = 0 => (up = x /\ down = x)]_vars

(* --------------------------- claims on slices ------------------------- *)
\* C17: _larr_addrof(slice, index, elemSize) returns the slice's pointer
\* plus index * elemSize when index < length and NULL when index >= length;
\* an address it returns lies before pointer + length * elemSize.
C17_AddrofBounds ==
  [][Call_larr_addrof(scall'.n)
     => LET index == scall'.n
            ret == scall'.ret IN
        /\ index < slice.len
             => /\ ret.blk = slice.arr.blk
                /\ ret.off = slice.arr.off + index * elemSize
        /\ index >= slice.len => ret = NullRef
        /\ ret # NullRef
             => /\ ret.blk = slice.arr.blk
                /\ ret.off < slice.arr.off + slice.len * elemSize]_vars

\* the index one past the last element of a non-empty slice was refused
C17_Witness ==
  /\ scall.op = "addrof" /\ slice.len > 0
  /\ scall.n = slice.len /\ scall.ret = NullRef

\* C18: _larr_advance(slice, n, elemSize) leaves max(0, length - n)
\* elements, moves the pointer by min(n, length) * elemSize, so that for
\* n <= length the address of element 0 afterwards is the address of
\* element n before, and does not modify the storage.
C18_AdvanceClamps ==
  [][Call_larr_advance(scall'.n)
     => LET n == scall'.n IN
        /\ slice'.len = (IF n > slice.len THEN 0 ELSE slice.len - n)
        /\ slice'.arr = PtrAdd(slice.arr, Min(n, slice.len) * elemSize)
        /\ n <= slice.len
             => _larr_addrof(slice', 0, elemSize) = _larr_addrof(slice, n, elemSize)
        /\ heap' = heap]_vars

\* an advance by more than its length emptied a slice at the end of the
\* elements it had
C18_Witness ==
  /\ scall.op = "advance" /\ scall.before.len > 0
  /\ scall.n > scall.before.len
  /\ slice.len = 0
  /\ slice.arr = PtrAdd(scall.before.arr, scall.before.len * elemSize)

====
